---- MODULE Spec2Model ----
(***************************************************************************)
(* RoomRepository (src/client/repository/RoomRepository.js): the client    *)
(* side mirror of the server's rooms and players.  The repository reacts   *)
(* to inbound transport events, mutates a keyed collection of rooms and    *)
(* re-emits consumer-facing notifications.  Collection, Room, Player and   *)
(* EventEmitter live in other files of the repository; they are modelled   *)
(* from their documented contract.                                         *)
(***************************************************************************)
EXTENDS Integers, Sequences, FiniteSets, TLC

\* Longest player list carried by one room:new payload.
MaxPlayers == 2

\* Most acknowledgement callbacks the transport holds at a time.
MaxPending == 1

\* Input domains of the inbound events.
RoomNames == {"A", "B"}
Clients == {"c1", "c2"}
Colors == {"red", "blue"}

\* Clients whose ready flag the server reports.
ReadyClients == {"c1"}

\* Arguments of the outbound requests: they are passed through unread.
RequestRooms == {"A"}
RequestClients == {"c1"}
RequestColors == {"red"}

\* Display name a client announces.
NameOf(c) == IF c = "c1" THEN "Alice" ELSE "Bob"

\* {client, name, color} entries as they appear in room:new and room:join:
\* c1 announced under either color, c2 as red (later color events may set any).
PlayerData ==
    {p \in {[client |-> c, name |-> NameOf(c), color |-> k] : c \in Clients, k \in Colors} :
        p.client = "c1" \/ p.color = "red"}

RECURSIVE SeqsUpTo(_, _)
SeqsUpTo(S, n) ==
    IF n = 0 THEN {<<>>}
    ELSE LET shorter == SeqsUpTo(S, n - 1)
         IN shorter \cup {Append(s, x) : s \in {t \in shorter : Len(t) = n - 1}, x \in S}

\* The player lists a room:new payload may carry (duplicates of a client allowed).
Payloads == SeqsUpTo(PlayerData, MaxPlayers)

VARIABLES
    synced,   \* this.synced
    rooms,    \* this.rooms: the ordered, name-keyed collection of rooms
    emitted,  \* notifications the last operation emitted to the consumers, in order
    sent,     \* requests the last operation handed to the transport, in order
    error,    \* "none", or the exception the last operation ended with
    last,     \* the last operation run
    pending   \* completion callbacks handed to the transport and not yet invoked

vars == <<synced, rooms, emitted, sent, error, last, pending>>

\* JavaScript's undefined / null, the absent marker of getById.
undefined == [undefined |-> TRUE]

-----------------------------------------------------------------------------
(* Keyed collection.                                                       *)

\* new Collection([], key)
Collection == <<>>

\* Whether an element with this key value is in the collection.
exists(items, key, id) == \E i \in 1..Len(items) : items[i][key] = id

\* Position of the first element with this key value, 0 when absent.
indexOf(items, key, id) ==
    IF exists(items, key, id)
    THEN CHOOSE i \in 1..Len(items) :
            /\ items[i][key] = id
            /\ \A j \in 1..(i - 1) : items[j][key] # id
    ELSE 0

\* Collection.getById
getById(items, key, id) ==
    IF exists(items, key, id) THEN items[indexOf(items, key, id)] ELSE undefined

\* Collection.add returns true exactly when the key is not yet present ...
canAdd(items, key, item) == ~exists(items, key, item[key])

\* ... and then inserts at the end; otherwise the collection is left alone.
add(items, key, item) ==
    IF canAdd(items, key, item) THEN Append(items, item) ELSE items

\* Collection.remove returns true exactly when the key is present ...
canRemove(items, key, item) == exists(items, key, item[key])

\* ... and then removes the first element with that key.
remove(items, key, item) ==
    IF canRemove(items, key, item)
    THEN LET i == indexOf(items, key, item[key])
         IN SubSeq(items, 1, i - 1) \o SubSeq(items, i + 1, Len(items))
    ELSE items

-----------------------------------------------------------------------------
(* Entities.                                                               *)

\* new Room(name)
Room(name) == [name |-> name, players |-> Collection]

\* new Player(client, name, color)
Player(client, name, color) ==
    [client |-> client, name |-> name, color |-> color, ready |-> FALSE]

\* Room.addPlayer: its result, and the room afterwards.
canAddPlayer(room, player) == canAdd(room.players, "client", player)

addPlayer(room, player) ==
    [room EXCEPT !.players = add(@, "client", player)]

\* Room.removePlayer: its result, and the room afterwards.
canRemovePlayer(room, player) == canRemove(room.players, "client", player)

removePlayer(room, player) ==
    [room EXCEPT !.players = remove(@, "client", player)]

\* Player.setColor
setColor(player, color) == [player EXCEPT !.color = color]

\* Player.toggleReady(ready)
toggleReady(player, ready) == [player EXCEPT !.ready = ready]

-----------------------------------------------------------------------------
(* The repository.  An operation maps the repository record                *)
(* [synced, rooms, emitted, sent, error, pending] to the record after it.  *)

\* A consumer-facing notification: the event name and the keys of its payload.
Notification(event, room, player) == [event |-> event, room |-> room, player |-> player]

\* EventEmitter.emit on the repository itself.
emit(this, event, room, player) ==
    [this EXCEPT !.emitted = Append(@, Notification(event, room, player))]

\* this.client.io.emit: an outbound request; callback tells whether the caller
\* passed a completion callback, which the transport keeps until it invokes it.
ioEmit(this, event, data, callback) ==
    [this EXCEPT !.sent = Append(@, [event |-> event, data |-> data, callback |-> callback]),
                 !.pending = IF callback THEN @ + 1 ELSE @]

\* The room object held under this name, replaced by its mutated self.
putRoom(this, room) ==
    [this EXCEPT !.rooms[indexOf(this.rooms, "name", room.name)] = room]

\* RoomRepository.get
get(this, name) == getById(this.rooms, "name", name)

\* setSynced without its guard: 'synced' is emitted on every call.
setSynced_AlwaysEmit(this) ==
    emit([this EXCEPT !.synced = TRUE], "synced", "", "")

\* setSynced that sets the flag and forgets the notification.
setSynced_NoEmit(this) ==
    IF ~this.synced THEN [this EXCEPT !.synced = TRUE] ELSE this

\* RoomRepository.setSynced
setSynced(this) ==
    IF ~this.synced
    THEN emit([this EXCEPT !.synced = TRUE], "synced", "", "")
    ELSE this

\* The loop of onNewRoom stopping one entry early (i > 0 for i >= 0).
RECURSIVE addPlayers_SkipFirst(_, _, _)
addPlayers_SkipFirst(room, players, i) ==
    IF i < 2 THEN room
    ELSE addPlayers_SkipFirst(
            addPlayer(room, Player(players[i].client, players[i].name, players[i].color)),
            players, i - 1)

\* The loop of onNewRoom running from the first payload entry to the last.
RECURSIVE addPlayers_Forward(_, _, _)
addPlayers_Forward(room, players, i) ==
    IF i < 1 THEN room
    ELSE LET j == Len(players) + 1 - i
         IN addPlayers_Forward(
                addPlayer(room, Player(players[j].client, players[j].name, players[j].color)),
                players, i - 1)

\* The loop of onNewRoom: i runs from the last payload entry down to the first.
RECURSIVE addPlayers(_, _, _)
addPlayers(room, players, i) ==
    IF i < 1 THEN room
    ELSE addPlayers(
            addPlayer(room, Player(players[i].client, players[i].name, players[i].color)),
            players, i - 1)

\* The room onNewRoom builds from its payload.
newRoom(data) == addPlayers(Room(data.name), data.players, Len(data.players))

\* onNewRoom that replaces a room already held under the name.
onNewRoom_Replace(this, data) ==
    LET room == newRoom(data)
        added == IF canAdd(this.rooms, "name", room)
                 THEN emit([this EXCEPT !.rooms = add(@, "name", room)],
                           "room:new", room.name, "")
                 ELSE emit(putRoom(this, room), "room:new", room.name, "")
    IN setSynced(added)

\* onNewRoom that forgets to call setSynced.
onNewRoom_NoSync(this, data) ==
    LET room == newRoom(data)
    IN IF canAdd(this.rooms, "name", room)
       THEN emit([this EXCEPT !.rooms = add(@, "name", room)],
                 "room:new", room.name, "")
       ELSE this

\* RoomRepository.onNewRoom
onNewRoom(this, data) ==
    LET room == newRoom(data)
        added == IF canAdd(this.rooms, "name", room)
                 THEN emit([this EXCEPT !.rooms = add(@, "name", room)],
                           "room:new", room.name, "")
                 ELSE this
    IN setSynced(added)

\* onCloseRoom that notifies whether or not a room was removed.
onCloseRoom_AlwaysEmit(this, data) ==
    LET room == get(this, data.room)
    IN IF room # undefined /\ canRemove(this.rooms, "name", room)
       THEN emit([this EXCEPT !.rooms = remove(@, "name", room)],
                 "room:close", room.name, "")
       ELSE emit(this, "room:close", data.room, "")

\* onCloseRoom that notifies and leaves the room in the collection.
onCloseRoom_KeepsRoom(this, data) ==
    LET room == get(this, data.room)
    IN IF room # undefined /\ canRemove(this.rooms, "name", room)
       THEN emit(this, "room:close", room.name, "")
       ELSE this

\* onCloseRoom that resets synced when it removes the last room.
onCloseRoom_Unsync(this, data) ==
    LET room == get(this, data.room)
    IN IF room # undefined /\ canRemove(this.rooms, "name", room)
       THEN emit([this EXCEPT !.rooms = remove(@, "name", room),
                              !.synced = Len(this.rooms) > 1],
                 "room:close", room.name, "")
       ELSE this

\* RoomRepository.onCloseRoom
onCloseRoom(this, data) ==
    LET room == get(this, data.room)
    IN IF room # undefined /\ canRemove(this.rooms, "name", room)
       THEN emit([this EXCEPT !.rooms = remove(@, "name", room)],
                 "room:close", room.name, "")
       ELSE this

\* onJoinRoom that ignores the result of addPlayer's duplicate check.
onJoinRoom_NoDupCheck(this, data) ==
    LET room == getById(this.rooms, "name", data.room)
        player == Player(data.player.client, data.player.name, data.player.color)
    IN IF room # undefined
       THEN emit(emit(putRoom(this, [room EXCEPT !.players = Append(@, player)]),
                      "room:join", room.name, player.client),
                 "room:join:" \o room.name, room.name, player.client)
       ELSE this

\* onJoinRoom that creates the room when it is not there yet.
onJoinRoom_CreatesRoom(this, data) ==
    LET room == getById(this.rooms, "name", data.room)
        player == Player(data.player.client, data.player.name, data.player.color)
    IN IF room = undefined
       THEN emit(emit([this EXCEPT !.rooms = Append(@, addPlayer(Room(data.room), player))],
                      "room:join", data.room, player.client),
                 "room:join:" \o data.room, data.room, player.client)
       ELSE IF canAddPlayer(room, player)
       THEN emit(emit(putRoom(this, addPlayer(room, player)),
                      "room:join", room.name, player.client),
                 "room:join:" \o room.name, room.name, player.client)
       ELSE this

\* RoomRepository.onJoinRoom
onJoinRoom(this, data) ==
    LET room == getById(this.rooms, "name", data.room)
        player == Player(data.player.client, data.player.name, data.player.color)
    IN IF room # undefined /\ canAddPlayer(room, player)
       THEN emit(emit(putRoom(this, addPlayer(room, player)),
                      "room:join", room.name, player.client),
                 "room:join:" \o room.name, room.name, player.client)
       ELSE this

\* onLeaveRoom that removes the client id from every room.
onLeaveRoom_AllRooms(this, data) ==
    LET room == getById(this.rooms, "name", data.room)
        player == IF room # undefined
                  THEN getById(room.players, "client", data.player)
                  ELSE undefined
    IN IF room # undefined /\ player # undefined /\ canRemovePlayer(room, player)
       THEN emit(emit([this EXCEPT !.rooms =
                            [i \in 1..Len(this.rooms) |-> removePlayer(this.rooms[i], player)]],
                      "room:leave", room.name, player.client),
                 "room:leave:" \o room.name, room.name, player.client)
       ELSE this

\* RoomRepository.onLeaveRoom
onLeaveRoom(this, data) ==
    LET room == getById(this.rooms, "name", data.room)
        player == IF room # undefined
                  THEN getById(room.players, "client", data.player)
                  ELSE undefined
    IN IF room # undefined /\ player # undefined /\ canRemovePlayer(room, player)
       THEN emit(emit(putRoom(this, removePlayer(room, player)),
                      "room:leave", room.name, player.client),
                 "room:leave:" \o room.name, room.name, player.client)
       ELSE this

\* The player object of a room, replaced by its mutated self.
putPlayer(room, player) ==
    [room EXCEPT !.players[indexOf(room.players, "client", player.client)] = player]

\* onPlayerColor that sets the color of the client id in every room.
onPlayerColor_AllRooms(this, data) ==
    LET room == getById(this.rooms, "name", data.room)
        player == IF room # undefined
                  THEN getById(room.players, "client", data.player)
                  ELSE undefined
        paint(r) == [r EXCEPT !.players =
                        [i \in 1..Len(r.players) |->
                            IF r.players[i].client = data.player
                            THEN setColor(r.players[i], data.color)
                            ELSE r.players[i]]]
    IN IF player # undefined
       THEN emit([this EXCEPT !.rooms = [i \in 1..Len(this.rooms) |-> paint(this.rooms[i])]],
                 "room:player:color:" \o room.name, room.name, player.client)
       ELSE this

\* RoomRepository.onPlayerColor
onPlayerColor(this, data) ==
    LET room == getById(this.rooms, "name", data.room)
        player == IF room # undefined
                  THEN getById(room.players, "client", data.player)
                  ELSE undefined
    IN IF player # undefined
       THEN emit(putRoom(this, putPlayer(room, setColor(player, data.color))),
                 "room:player:color:" \o room.name, room.name, player.client)
       ELSE this

\* onPlayerReady that flips the flag instead of taking the event's value.
onPlayerReady_Xor(this, data) ==
    LET room == getById(this.rooms, "name", data.room)
        player == IF room # undefined
                  THEN getById(room.players, "client", data.player)
                  ELSE undefined
    IN IF player # undefined
       THEN emit(putRoom(this, putPlayer(room, toggleReady(player, ~player.ready))),
                 "room:player:ready:" \o room.name, room.name, player.client)
       ELSE this

\* RoomRepository.onPlayerReady
onPlayerReady(this, data) ==
    LET room == getById(this.rooms, "name", data.room)
        player == IF room # undefined
                  THEN getById(room.players, "client", data.player)
                  ELSE undefined
    IN IF player # undefined
       THEN emit(putRoom(this, putPlayer(room, toggleReady(player, data.ready))),
                 "room:player:ready:" \o room.name, room.name, player.client)
       ELSE this

\* onWarmupRoom without its check that the room exists.
onWarmupRoom_NoCheck(this, data) ==
    emit(emit(this, "room:start", data.room, ""),
         "room:start:" \o data.room, data.room, "")

\* onWarmupRoom that emits the room-scoped notification first.
onWarmupRoom_ScopedFirst(this, data) ==
    LET room == getById(this.rooms, "name", data.room)
    IN IF room # undefined
       THEN emit(emit(this, "room:start:" \o room.name, room.name, ""),
                 "room:start", room.name, "")
       ELSE this

\* RoomRepository.onWarmupRoom
onWarmupRoom(this, data) ==
    LET room == getById(this.rooms, "name", data.room)
    IN IF room # undefined
       THEN emit(emit(this, "room:start", room.name, ""),
                 "room:start:" \o room.name, room.name, "")
       ELSE this

\* refresh that resets synced and keeps the old collection.
refresh_KeepRooms(this) ==
    [this EXCEPT !.synced = FALSE, !.error = "ReferenceError"]

\* RoomRepository.refresh: the two assignments run, then the argument list of
\* the outbound call reads the identifiers room and callback, which the
\* function never declares: the read throws and the call is never made.
refresh(this) ==
    [this EXCEPT !.synced = FALSE, !.rooms = Collection, !.error = "ReferenceError"]

\* create that also adds the room to the local collection.
create_Optimistic(this, name, callback) ==
    ioEmit([this EXCEPT !.rooms = add(@, "name", Room(name))],
           "room:create", [name |-> name], callback)

\* RoomRepository.create
create(this, name, callback) == ioEmit(this, "room:create", [name |-> name], callback)

\* RoomRepository.join
join(this, room, callback) == ioEmit(this, "room:join", [room |-> room], callback)

\* RoomRepository.addPlayer (the outbound request)
requestAddPlayer(this, name, callback) ==
    ioEmit(this, "room:player:add", [name |-> name], callback)

\* RoomRepository.leave
leave(this, callback) == ioEmit(this, "room:leave", [none |-> TRUE], callback)

\* RoomRepository.setColor (the outbound request)
requestSetColor(this, room, player, color, callback) ==
    ioEmit(this, "room:color", [room |-> room, player |-> player, color |-> color], callback)

\* RoomRepository.setReady
setReady(this, room, player, callback) ==
    ioEmit(this, "room:ready", [room |-> room, player |-> player], callback)

-----------------------------------------------------------------------------
(* The state machine.                                                      *)

\* The repository as an operation finds it: the per-operation outputs are empty.
This ==
    [synced |-> synced, rooms |-> rooms, emitted |-> <<>>, sent |-> <<>>, error |-> "none",
     pending |-> pending]

\* The variables after an operation that returned the record t.
Becomes(t, op) ==
    /\ synced' = t.synced
    /\ rooms' = t.rooms
    /\ emitted' = t.emitted
    /\ sent' = t.sent
    /\ error' = t.error
    /\ last' = op
    /\ pending' = t.pending

\* The constructor.
Init ==
    /\ synced = FALSE
    /\ rooms = Collection
    /\ emitted = <<>>
    /\ sent = <<>>
    /\ error = "none"
    /\ last = "constructor"
    /\ pending = 0

\* Inbound events, delivered one at a time.
NewRoom ==
    \E n \in RoomNames, ps \in Payloads :
        Becomes(onNewRoom(This, [name |-> n, players |-> ps]), "room:new")

CloseRoom ==
    \E n \in RoomNames :
        Becomes(onCloseRoom(This, [room |-> n]), "room:close")

JoinRoom ==
    \E n \in RoomNames, p \in PlayerData :
        Becomes(onJoinRoom(This, [room |-> n, player |-> p]), "room:join")

LeaveRoom ==
    \E n \in RoomNames, c \in Clients :
        Becomes(onLeaveRoom(This, [room |-> n, player |-> c]), "room:leave")

PlayerColor ==
    \E n \in RoomNames, c \in Clients, k \in Colors :
        Becomes(onPlayerColor(This, [room |-> n, player |-> c, color |-> k]),
                "room:player:color")

PlayerReady ==
    \E n \in RoomNames, c \in ReadyClients, r \in BOOLEAN :
        Becomes(onPlayerReady(This, [room |-> n, player |-> c, ready |-> r]),
                "room:player:ready")

WarmupRoom ==
    \E n \in RoomNames :
        Becomes(onWarmupRoom(This, [room |-> n]), "room:start")

\* Calls of the public methods, the optional callback left out.
Refresh == Becomes(refresh(This), "refresh")

Create == \E n \in RequestRooms : Becomes(create(This, n, FALSE), "create")

Join == \E n \in RequestRooms : Becomes(join(This, n, FALSE), "join")

AddPlayer ==
    \E c \in RequestClients : Becomes(requestAddPlayer(This, NameOf(c), FALSE), "addPlayer")

Leave == Becomes(leave(This, FALSE), "leave")

SetColor ==
    \E n \in RequestRooms, c \in RequestClients, k \in RequestColors :
        Becomes(requestSetColor(This, n, c, k, FALSE), "setColor")

SetReady ==
    \E n \in RequestRooms, c \in RequestClients :
        Becomes(setReady(This, n, c, FALSE), "setReady")

Next ==
    \/ NewRoom
    \/ CloseRoom
    \/ JoinRoom
    \/ LeaveRoom
    \/ PlayerColor
    \/ PlayerReady
    \/ WarmupRoom
    \/ Refresh
    \/ Create
    \/ Join
    \/ AddPlayer
    \/ Leave
    \/ SetColor
    \/ SetReady

Spec == Init /\ [][Next]_vars

\* The same calls with a completion callback, while the transport has room
\* for one more.
CreateAck ==
    /\ pending < MaxPending
    /\ \E n \in RequestRooms : Becomes(create(This, n, TRUE), "create")

JoinAck ==
    /\ pending < MaxPending
    /\ \E n \in RequestRooms : Becomes(join(This, n, TRUE), "join")

AddPlayerAck ==
    /\ pending < MaxPending
    /\ \E c \in RequestClients :
          Becomes(requestAddPlayer(This, NameOf(c), TRUE), "addPlayer")

LeaveAck ==
    /\ pending < MaxPending
    /\ Becomes(leave(This, TRUE), "leave")

SetColorAck ==
    /\ pending < MaxPending
    /\ \E n \in RequestRooms, c \in RequestClients, k \in RequestColors :
          Becomes(requestSetColor(This, n, c, k, TRUE), "setColor")

SetReadyAck ==
    /\ pending < MaxPending
    /\ \E n \in RequestRooms, c \in RequestClients :
          Becomes(setReady(This, n, c, TRUE), "setReady")

\* The caller's completion callback, run by the transport when the server
\* acknowledges: no code of the repository runs in it.
acknowledge(this) == [this EXCEPT !.pending = @ - 1]

\* The transport invokes one outstanding callback, at any later time.
Acknowledge ==
    /\ pending > 0
    /\ Becomes(acknowledge(This), "ack")

NextAcks ==
    \/ Next
    \/ CreateAck
    \/ JoinAck
    \/ AddPlayerAck
    \/ LeaveAck
    \/ SetColorAck
    \/ SetReadyAck
    \/ Acknowledge

\* Inbound events interleaved with requests and their acknowledgements.
SpecAcks == Init /\ [][NextAcks]_vars

-----------------------------------------------------------------------------
(* Inbound events as values, for the properties that deliver one twice or  *)
(* two in both orders.                                                     *)

NewRoomEvents ==
    {[type |-> "room:new", data |-> [name |-> n, players |-> ps]] :
        n \in RoomNames, ps \in Payloads}

CloseRoomEvents ==
    {[type |-> "room:close", data |-> [room |-> n]] : n \in RoomNames}

JoinRoomEvents ==
    {[type |-> "room:join", data |-> [room |-> n, player |-> p]] :
        n \in RoomNames, p \in PlayerData}

LeaveRoomEvents ==
    {[type |-> "room:leave", data |-> [room |-> n, player |-> c]] :
        n \in RoomNames, c \in Clients}

PlayerColorEvents ==
    {[type |-> "room:player:color", data |-> [room |-> n, player |-> c, color |-> k]] :
        n \in RoomNames, c \in Clients, k \in Colors}

PlayerReadyEvents ==
    {[type |-> "room:player:ready", data |-> [room |-> n, player |-> c, ready |-> r]] :
        n \in RoomNames, c \in ReadyClients, r \in BOOLEAN}

WarmupRoomEvents ==
    {[type |-> "room:start", data |-> [room |-> n]] : n \in RoomNames}

\* The inbound events, one set per event type.
InboundEvents ==
    << NewRoomEvents, CloseRoomEvents, JoinRoomEvents, LeaveRoomEvents,
       PlayerColorEvents, PlayerReadyEvents, WarmupRoomEvents >>

EventTypes == 1..Len(InboundEvents)

\* The subscriptions of the constructor: which handler an event type runs.
deliver(this, e) ==
    CASE e.type = "room:new" -> onNewRoom(this, e.data)
      [] e.type = "room:close" -> onCloseRoom(this, e.data)
      [] e.type = "room:join" -> onJoinRoom(this, e.data)
      [] e.type = "room:leave" -> onLeaveRoom(this, e.data)
      [] e.type = "room:start" -> onWarmupRoom(this, e.data)
      [] e.type = "room:player:ready" -> onPlayerReady(this, e.data)
      [] e.type = "room:player:color" -> onPlayerColor(this, e.data)

\* The repository as the next operation finds it after one that returned t.
Fresh(t) == [t EXCEPT !.emitted = <<>>, !.sent = <<>>, !.error = "none"]

\* Whether the operation that returned t emitted this notification.
Notified(t, event) == \E i \in 1..Len(t.emitted) : t.emitted[i].event = event

\* The local state of a repository record.
StateOf(t) == <<t.synced, t.rooms>>

\* Whether a room of this name is in the collection, and its players.
HasRoom(n) == exists(rooms, "name", n)

PlayersOf(coll, n) == getById(coll, "name", n).players

HasPlayer(n, c) == HasRoom(n) /\ exists(PlayersOf(rooms, n), "client", c)

-----------------------------------------------------------------------------
(* Properties.                                                             *)

\* Event types whose handler mutates a collection and notifies only then.
GatedTypes == {"room:new", "room:close", "room:join", "room:leave"}

\* C1 (as stated): in every reachable state, delivering any inbound event a
\* second time right after the first leaves rooms, players, colors, ready
\* flags and synced as the first delivery left them, and the second delivery
\* emits no notification at all.
C1_Original ==
    \A k \in EventTypes : \A e \in InboundEvents[k] :
        LET once == deliver(This, e)
            twice == deliver(Fresh(once), e)
        IN /\ StateOf(twice) = StateOf(once)
           /\ twice.emitted = <<>>

\* C1 (amended): the second delivery never changes the local state; it emits
\* nothing for room:new, room:close, room:join and room:leave, and for
\* room:player:color, room:player:ready and room:start it emits again exactly
\* what the first delivery emitted.
C1_Idempotent ==
    \A k \in EventTypes : \A e \in InboundEvents[k] :
        LET once == deliver(This, e)
            twice == deliver(Fresh(once), e)
        IN /\ StateOf(twice) = StateOf(once)
           /\ twice.error = "none"
           /\ e.type \in GatedTypes => twice.emitted = <<>>
           /\ e.type \notin GatedTypes => twice.emitted = once.emitted

\* A colour event has just been applied and notified, and delivering it again
\* would notify again.
C1_Witness ==
    /\ last = "room:player:color"
    /\ Len(emitted) = 1
    /\ \E e \in PlayerColorEvents :
          /\ emitted[1].room = e.data.room
          /\ emitted[1].player = e.data.player
          /\ deliver(This, e).rooms = rooms
          /\ deliver(This, e).emitted = emitted

\* C2: a room:new event whose name is already in the collection leaves the
\* collection as it is (same length, the present room and its players
\* untouched, the payload's players not merged in) and emits no 'room:new'.
C2_DuplicateNewRoom ==
    \A n \in RoomNames, ps \in Payloads :
        HasRoom(n) =>
            LET after == onNewRoom(This, [name |-> n, players |-> ps])
            IN /\ after.rooms = rooms
               /\ Len(after.rooms) = Len(rooms)
               /\ get(after, n) = get(This, n)
               /\ ~Notified(after, "room:new")

\* A room:new event has just been delivered for a name already present.
C2_Witness ==
    /\ last = "room:new"
    /\ ~\E i \in 1..Len(emitted) : emitted[i].event = "room:new"
    /\ Len(rooms) > 0

\* C3: a room:join event for an existing room R and player P appends P to R
\* exactly when R holds no player with P's client id, and then emits
\* 'room:join' followed by 'room:join:<R>', once each; otherwise it changes
\* and emits nothing.  Delivered again, it changes and emits nothing, and R
\* holds exactly one player with that client id.
C3_JoinOnce ==
    \A n \in RoomNames, p \in PlayerData :
        HasRoom(n) =>
            LET data == [room |-> n, player |-> p]
                first == onJoinRoom(This, data)
                second == onJoinRoom(Fresh(first), data)
                before == PlayersOf(rooms, n)
                held == PlayersOf(second.rooms, n)
            IN /\ IF ~HasPlayer(n, p.client)
                  THEN /\ PlayersOf(first.rooms, n)
                            = Append(before, [client |-> p.client, name |-> p.name,
                                              color |-> p.color, ready |-> FALSE])
                       /\ first.emitted
                            = << [event |-> "room:join", room |-> n, player |-> p.client],
                                 [event |-> "room:join:" \o n, room |-> n, player |-> p.client] >>
                  ELSE /\ first.rooms = rooms
                       /\ first.emitted = <<>>
               /\ \A m \in RoomNames \ {n} :
                     HasRoom(m) => PlayersOf(first.rooms, m) = PlayersOf(rooms, m)
               /\ Len(first.rooms) = Len(rooms)
               /\ first.synced = synced
               /\ second.rooms = first.rooms
               /\ second.emitted = <<>>
               /\ Cardinality({i \in 1..Len(held) : held[i].client = p.client}) = 1

\* A room:join event has just added a player and emitted its two notifications.
C3_Witness ==
    /\ last = "room:join"
    /\ Len(emitted) = 2
    /\ emitted[1].event = "room:join"
    /\ HasPlayer(emitted[1].room, emitted[1].player)

\* The 'synced' notification is among those of the last operation.
SyncedEmitted == \E i \in 1..Len(emitted) : emitted[i].event = "synced"

\* C4: a room:new event delivered while synced is false sets synced and
\* emits 'synced'; 'synced' is emitted by no other step, and never while
\* synced is already true; synced goes back to false only by refresh().
\* Hence between two refreshes 'synced' is emitted at most once.
C4_SyncedOnce ==
    [][ /\ (last' = "room:new" /\ ~synced) => (synced' /\ SyncedEmitted')
        /\ SyncedEmitted' => (~synced /\ synced' /\ last' = "room:new")
        /\ (synced /\ ~synced') => last' = "refresh"
        /\ (synced /\ last' = "room:new") => (synced' /\ ~SyncedEmitted')
      ]_vars

\* The first room:new event after construction or refresh has been delivered.
C4_Witness ==
    /\ last = "room:new"
    /\ synced
    /\ SyncedEmitted

\* The rooms the server holds when the client connects: several of them,
\* each announced by a room:new event of its own.
InitialList == RoomNames

\* C5 (as stated): synced does not become true while a room of the server's
\* initial list is still missing from the local collection.
C5_Original ==
    [][ (~synced /\ synced') => \A n \in InitialList : exists(rooms', "name", n) ]_vars

\* C5 (amended): synced becomes true, and 'synced' is emitted, on the first
\* room:new event, when the collection holds that one room only.
C5_SyncedOnFirstRoom ==
    [][ (~synced /\ synced') =>
            /\ last' = "room:new"
            /\ rooms = <<>>
            /\ Len(rooms') = 1
            /\ SyncedEmitted'
      ]_vars

\* synced has just become true with one room of the initial list present
\* and another one still missing.
C5_Witness ==
    /\ synced
    /\ SyncedEmitted
    /\ Len(rooms) = 1
    /\ \E n \in InitialList : ~HasRoom(n)

\* C6: after refresh(), whatever the state before it, the room collection is
\* empty and synced is false.
C6_RefreshClears ==
    /\ last = "refresh" => (rooms = <<>> /\ ~synced)
    /\ refresh(This).rooms = <<>>
    /\ ~refresh(This).synced

\* refresh() has just run.
C6_Witness ==
    /\ last = "refresh"
    /\ rooms = <<>>
    /\ ~synced
    /\ emitted = <<>>

\* C7 (as stated): refresh() hands one room:join request to the transport
\* and returns without an error.
C7_RefreshRequests ==
    last = "refresh" =>
        /\ error = "none"
        /\ Len(sent) = 1
        /\ sent[1].event = "room:join"

\* Event types that name a room that must exist, and those that also name a
\* player that must be in it (positions in InboundEvents).
RoomEventTypes == {2, 3, 4, 5, 6, 7}
PlayerEventTypes == {4, 5, 6}

\* C8: an inbound event naming a room that is not in the collection, or a
\* client id that is not in the named room, changes nothing, emits nothing
\* and raises nothing.
C8_SilentNoOp ==
    /\ \A k \in RoomEventTypes : \A e \in InboundEvents[k] :
          ~HasRoom(e.data.room) => deliver(This, e) = This
    /\ \A k \in PlayerEventTypes : \A e \in InboundEvents[k] :
          (HasRoom(e.data.room) /\ ~HasPlayer(e.data.room, e.data.player))
              => deliver(This, e) = This

\* A room:leave event has just arrived after the close of the last room.
C8_Witness ==
    /\ last = "room:leave"
    /\ emitted = <<>>
    /\ error = "none"
    /\ synced
    /\ rooms = <<>>

\* The clients a payload's player list names.
ClientsIn(ps) == {ps[i].client : i \in 1..Len(ps)}

\* The names of the rooms of a collection, in order.
NamesOf(coll) == [i \in 1..Len(coll) |-> coll[i].name]

\* C9 (as stated): for a room:new(A, players) and a room:join(A, P) event the
\* server produced in that order, delivering them in either order gives the
\* same local state.
C9_Original ==
    \A n \in RoomNames, ps \in Payloads, p \in PlayerData :
        ~HasRoom(n) =>
            LET new == [type |-> "room:new", data |-> [name |-> n, players |-> ps]]
                joined == [type |-> "room:join", data |-> [room |-> n, player |-> p]]
                inOrder == deliver(Fresh(deliver(This, new)), joined)
                swapped == deliver(Fresh(deliver(This, joined)), new)
            IN StateOf(inOrder) = StateOf(swapped)

\* C9 (amended): both orders give the same room names and synced = true and
\* raise nothing, but with the join delivered first it is dropped: A then
\* holds the payload's players only, while in the server's order A also
\* holds P.  The two final states agree only when the payload already names
\* P's client id.
C9_OrderMatters ==
    \A n \in RoomNames, ps \in Payloads, p \in PlayerData :
        ~HasRoom(n) =>
            LET new == [type |-> "room:new", data |-> [name |-> n, players |-> ps]]
                joined == [type |-> "room:join", data |-> [room |-> n, player |-> p]]
                created == deliver(This, new)
                inOrder == deliver(Fresh(created), joined)
                dropped == deliver(This, joined)
                swapped == deliver(Fresh(dropped), new)
            IN /\ NamesOf(inOrder.rooms) = NamesOf(swapped.rooms)
               /\ inOrder.synced /\ swapped.synced
               /\ inOrder.error = "none" /\ swapped.error = "none"
               /\ dropped = This
               /\ PlayersOf(swapped.rooms, n) = PlayersOf(created.rooms, n)
               /\ PlayersOf(inOrder.rooms, n) =
                     IF p.client \in ClientsIn(ps)
                     THEN PlayersOf(created.rooms, n)
                     ELSE Append(PlayersOf(created.rooms, n),
                                 [client |-> p.client, name |-> p.name,
                                  color |-> p.color, ready |-> FALSE])
               /\ (StateOf(inOrder) = StateOf(swapped)) <=> (p.client \in ClientsIn(ps))

\* A room:join event has just been dropped because its room is not there
\* yet, with synced still false: the room:new event it overtook is due next.
C9_Witness ==
    /\ last = "room:join"
    /\ emitted = <<>>
    /\ rooms = <<>>
    /\ ~synced

\* C10: a room:new event for a name not yet present creates a room that
\* get(name) returns, holding one player per distinct client id of the
\* payload, each with a name and color the payload gives for that client id;
\* synced is true afterwards.
C10_NewRoomSnapshot ==
    \A n \in RoomNames, ps \in Payloads :
        ~HasRoom(n) =>
            LET after == onNewRoom(This, [name |-> n, players |-> ps])
                room == get(after, n)
            IN /\ room # undefined
               /\ room.name = n
               /\ Len(after.rooms) = Len(rooms) + 1
               /\ {room.players[i].client : i \in 1..Len(room.players)} = ClientsIn(ps)
               /\ Len(room.players) = Cardinality(ClientsIn(ps))
               /\ \A i \in 1..Len(room.players) :
                     \E j \in 1..Len(ps) :
                         /\ room.players[i].client = ps[j].client
                         /\ room.players[i].name = ps[j].name
                         /\ room.players[i].color = ps[j].color
               /\ Len(ps) = 1 =>
                     room.players = << [client |-> ps[1].client, name |-> ps[1].name,
                                        color |-> ps[1].color, ready |-> FALSE] >>
               /\ after.synced

\* A room:new event has just created a room whose one player is c1, Alice, red.
C10_Witness ==
    /\ last = "room:new"
    /\ synced
    /\ Len(emitted) > 0
    /\ emitted[1].event = "room:new"
    /\ HasRoom(emitted[1].room)
    /\ PlayersOf(rooms, emitted[1].room)
          = << [client |-> "c1", name |-> "Alice", color |-> "red", ready |-> FALSE] >>

\* The ready flag of the player with this client id in the named room.
ReadyOf(coll, n, c) == getById(PlayersOf(coll, n), "client", c).ready

\* C11: a room:player:ready event for an existing player sets the ready flag
\* to the boolean it carries, whatever the flag was: r then not r ends with
\* not r, r twice ends with r; each delivery emits 'room:player:ready:<room>'.
C11_ReadyOverwrites ==
    \A n \in RoomNames, c \in ReadyClients, r \in BOOLEAN :
        HasPlayer(n, c) =>
            LET event(b) == [room |-> n, player |-> c, ready |-> b]
                first == onPlayerReady(This, event(r))
                flipped == onPlayerReady(Fresh(first), event(~r))
                again == onPlayerReady(Fresh(first), event(r))
                notice == << [event |-> "room:player:ready:" \o n, room |-> n, player |-> c] >>
            IN /\ ReadyOf(first.rooms, n, c) = r
               /\ first.emitted = notice
               /\ ReadyOf(flipped.rooms, n, c) = ~r
               /\ flipped.emitted = notice
               /\ ReadyOf(again.rooms, n, c) = r
               /\ again.emitted = notice

\* A ready event has just been applied and the player it names is ready.
C11_Witness ==
    /\ last = "room:player:ready"
    /\ Len(emitted) = 1
    /\ HasPlayer(emitted[1].room, emitted[1].player)
    /\ ReadyOf(rooms, emitted[1].room, emitted[1].player)

\* The outbound request operations.
RequestOps == {"create", "join", "addPlayer", "leave", "setColor", "setReady"}

\* C12: a request operation, with or without a callback, and the later
\* invocation of a callback leave rooms, players, colors, ready flags and
\* synced as they are and notify nothing, at every point of any interleaving
\* with inbound events; a request operation hands exactly one request to the
\* transport, and the transport holds its callback until it invokes it.
C12_RequestsLeaveMirror ==
    [][ /\ last' \in RequestOps \cup {"ack"} =>
              /\ rooms' = rooms
              /\ synced' = synced
              /\ emitted' = <<>>
              /\ error' = "none"
        /\ last' \in RequestOps =>
              /\ Len(sent') = 1
              /\ pending' = pending + (IF sent'[1].callback THEN 1 ELSE 0)
        /\ last' = "ack" =>
              /\ sent' = <<>>
              /\ pending' = pending - 1
      ]_vars

\* A callback has just been invoked while the mirror holds rooms that inbound
\* events brought in.
C12_Witness ==
    /\ last = "ack"
    /\ pending = 0
    /\ synced
    /\ Len(rooms) = 2

\* C13: no two rooms of the collection have the same name and no two players
\* of a room have the same client id.
C13_UniqueKeys ==
    /\ \A i, j \in 1..Len(rooms) : rooms[i].name = rooms[j].name => i = j
    /\ \A k \in 1..Len(rooms) :
          \A i, j \in 1..Len(rooms[k].players) :
              rooms[k].players[i].client = rooms[k].players[j].client => i = j

\* A room:join event for a client id already in its room has just been
\* refused, with every room and every client present.
C13_Witness ==
    /\ last = "room:join"
    /\ emitted = <<>>
    /\ Len(rooms) = Cardinality(RoomNames)
    /\ \A k \in 1..Len(rooms) : Len(rooms[k].players) = Cardinality(Clients)

\* C14: a room:close event for an existing room emits 'room:close' once and
\* removes that room with its players: get(name) is absent, the other rooms
\* and synced are unchanged, and a later room:new of the same name holds the
\* players of the new payload only, each not ready and of the payload's color.
C14_CloseRemoves ==
    \A n \in RoomNames :
        HasRoom(n) =>
            LET closed == onCloseRoom(This, [room |-> n])
            IN /\ closed.emitted = << [event |-> "room:close", room |-> n, player |-> ""] >>
               /\ get(closed, n) = undefined
               /\ closed.rooms = SelectSeq(rooms, LAMBDA r : r.name # n)
               /\ closed.synced = synced
               /\ \A ps \in Payloads :
                     LET again == onNewRoom(Fresh(closed), [name |-> n, players |-> ps])
                         held == PlayersOf(again.rooms, n)
                     IN /\ {held[i].client : i \in 1..Len(held)} = ClientsIn(ps)
                        /\ \A i \in 1..Len(held) :
                              /\ ~held[i].ready
                              /\ \E j \in 1..Len(ps) :
                                    /\ ps[j].client = held[i].client
                                    /\ ps[j].color = held[i].color

\* A room:close event has just removed one of two rooms.
C14_Witness ==
    /\ last = "room:close"
    /\ Len(emitted) = 1
    /\ emitted[1].event = "room:close"
    /\ ~HasRoom(emitted[1].room)
    /\ Len(rooms) = 1

\* C15: a room:leave event for a client id present in an existing room R
\* removes that player from R only: the other players of R, every other room
\* (a player of the same client id there included) and synced are unchanged,
\* and 'room:leave' then 'room:leave:<R>' are emitted, once each.
C15_LeaveRemovesOne ==
    \A n \in RoomNames, c \in Clients :
        HasPlayer(n, c) =>
            LET after == onLeaveRoom(This, [room |-> n, player |-> c])
            IN /\ PlayersOf(after.rooms, n)
                    = SelectSeq(PlayersOf(rooms, n), LAMBDA p : p.client # c)
               /\ NamesOf(after.rooms) = NamesOf(rooms)
               /\ \A m \in RoomNames \ {n} : HasRoom(m) => get(after, m) = get(This, m)
               /\ after.synced = synced
               /\ after.emitted
                    = << [event |-> "room:leave", room |-> n, player |-> c],
                         [event |-> "room:leave:" \o n, room |-> n, player |-> c] >>

\* A room:leave event has just removed a player whose client id is still in
\* the other room, and the other player of its room is still there.
C15_Witness ==
    /\ last = "room:leave"
    /\ Len(emitted) = 2
    /\ Len(PlayersOf(rooms, emitted[1].room)) = 1
    /\ \E m \in RoomNames \ {emitted[1].room} : HasPlayer(m, emitted[1].player)

\* Positions in InboundEvents of the events that change one player.
ColorEventType == {5}
ColorOrReadyTypes == {5, 6}

\* C16: a room:player:color or room:player:ready event naming room R and
\* client id P changes only the color, or only the ready flag, of the player
\* P of R and emits the notification scoped to R; every other player of R
\* and every other room, a player with the same client id there included, is
\* unchanged; when R does not hold P nothing is changed or emitted.
C16_OnlyThatPlayer ==
    \A k \in ColorOrReadyTypes : \A e \in InboundEvents[k] :
        LET n == e.data.room
            c == e.data.player
            after == deliver(This, e)
        IN IF HasPlayer(n, c)
           THEN LET old == getById(PlayersOf(rooms, n), "client", c)
                    new == getById(PlayersOf(after.rooms, n), "client", c)
                    before == PlayersOf(rooms, n)
                    held == PlayersOf(after.rooms, n)
                IN /\ after.emitted
                        = << [event |-> e.type \o ":" \o n, room |-> n, player |-> c] >>
                   /\ new.client = c /\ new.name = old.name
                   /\ IF k \in ColorEventType
                      THEN new.color = e.data.color /\ new.ready = old.ready
                      ELSE new.ready = e.data.ready /\ new.color = old.color
                   /\ Len(held) = Len(before)
                   /\ \A i \in 1..Len(before) :
                         before[i].client # c => held[i] = before[i]
                   /\ NamesOf(after.rooms) = NamesOf(rooms)
                   /\ \A m \in RoomNames \ {n} :
                         HasRoom(m) => get(after, m) = get(This, m)
                   /\ after.synced = synced
           ELSE after = This

\* A color event has just been applied in one room while the other room
\* holds a player of the same client id under another color.
C16_Witness ==
    /\ last = "room:player:color"
    /\ Len(emitted) = 1
    /\ \E m \in RoomNames \ {emitted[1].room} :
          /\ HasPlayer(m, emitted[1].player)
          /\ getById(PlayersOf(rooms, m), "client", emitted[1].player).color
                # getById(PlayersOf(rooms, emitted[1].room), "client", emitted[1].player).color

\* C17: a room:start event never changes rooms, players, colors, ready flags
\* or synced; for an existing room it emits 'room:start' and then
\* 'room:start:<room>', once each, and for a missing room it emits nothing.
C17_StartOnlyNotifies ==
    \A n \in RoomNames :
        LET after == onWarmupRoom(This, [room |-> n])
        IN /\ StateOf(after) = StateOf(This)
           /\ after.error = "none"
           /\ after.sent = <<>>
           /\ after.emitted =
                 IF HasRoom(n)
                 THEN << [event |-> "room:start", room |-> n, player |-> ""],
                         [event |-> "room:start:" \o n, room |-> n, player |-> ""] >>
                 ELSE <<>>

\* A room:start event for an existing room has just been notified.
C17_Witness ==
    /\ last = "room:start"
    /\ Len(emitted) = 2
    /\ emitted[1].event = "room:start"
    /\ HasRoom(emitted[1].room)

\* How many of the last operation's notifications are 'synced'.
SyncedCount == Cardinality({i \in 1..Len(emitted) : emitted[i].event = "synced"})

\* C18: once synced is true, every step but refresh() keeps it true and
\* emits no 'synced'; refresh() sets it to false; while it is false only a
\* room:new event changes it, and that event sets it to true and emits
\* 'synced' exactly once, as its last notification.
C18_SyncedLifecycle ==
    [][ /\ (synced /\ last' # "refresh") => (synced' /\ SyncedCount' = 0)
        /\ last' = "refresh" => (~synced' /\ SyncedCount' = 0)
        /\ (~synced /\ last' = "room:new") =>
              /\ synced'
              /\ SyncedCount' = 1
              /\ emitted'[Len(emitted')].event = "synced"
        /\ (~synced /\ last' # "room:new") => (~synced' /\ SyncedCount' = 0)
      ]_vars

\* A room:new event has just created a room and then set synced.
C18_Witness ==
    /\ last = "room:new"
    /\ synced
    /\ Len(emitted) = 2
    /\ emitted[1].event = "room:new"
    /\ emitted[2].event = "synced"

\* C19: while synced is false the room collection is empty.
C19_UnsyncedIsEmpty == ~synced => rooms = <<>>

\* refresh() has just reset synced and the collection together.
C19_Witness ==
    /\ ~synced
    /\ Len(rooms) = 0
    /\ last = "refresh"
    /\ error = "ReferenceError"

\* A sequence back to front.
Reverse(s) == [i \in 1..Len(s) |-> s[Len(s) + 1 - i]]

\* A player list with, of the entries of one client id, only the first.
RECURSIVE KeepFirst(_)
KeepFirst(ps) ==
    IF ps = <<>> THEN <<>>
    ELSE LET front == KeepFirst(SubSeq(ps, 1, Len(ps) - 1))
             entry == ps[Len(ps)]
         IN IF \E i \in 1..Len(front) : front[i].client = entry.client
            THEN front
            ELSE Append(front, entry)

\* The players a list of payload entries stands for.
AsPlayers(ps) ==
    [i \in 1..Len(ps) |->
        [client |-> ps[i].client, name |-> ps[i].name, color |-> ps[i].color, ready |-> FALSE]]

\* C20 (as stated): the players of a room built by room:new are in payload
\* order, and of several entries of one client id the first is kept.
C20_Original ==
    \A n \in RoomNames, ps \in Payloads :
        ~HasRoom(n) =>
            PlayersOf(onNewRoom(This, [name |-> n, players |-> ps]).rooms, n)
                = AsPlayers(KeepFirst(ps))

\* C20 (amended): the players of a room built by room:new are in reverse
\* payload order, and of several entries of one client id the last in
\* payload order is kept.
C20_ReversedOrder ==
    \A n \in RoomNames, ps \in Payloads :
        ~HasRoom(n) =>
            PlayersOf(onNewRoom(This, [name |-> n, players |-> ps]).rooms, n)
                = AsPlayers(KeepFirst(Reverse(ps)))

\* A room:new event has just created a room of two players.
C20_Witness ==
    /\ last = "room:new"
    /\ Len(emitted) > 0
    /\ emitted[1].event = "room:new"
    /\ HasRoom(emitted[1].room)
    /\ Len(PlayersOf(rooms, emitted[1].room)) = 2
    /\ \A i \in 1..2 : ~PlayersOf(rooms, emitted[1].room)[i].ready

====
